---- MODULE Spec2Model ----
(***************************************************************************)
(* A model of src/src/multi_tts_workflow.py: the segmentation, join, merge *)
(* and dispatch pipeline that turns a novel text into numbered audio clips.*)
(*                                                                         *)
(* A Python str is a sequence of characters; a character is a one-element  *)
(* token named below.  A Python dict is a record.  A function that may     *)
(* raise returns [raised |-> <exception name or "none">, value |-> ...].   *)
(***************************************************************************)
EXTENDS Integers, Sequences, FiniteSets, TLC

VARIABLES
    pc,                     \* position of the running call
    error,                  \* name of the exception that ended the call, or "none"
    text,                   \* the novel text
    config,                 \* dotenv_values(".env")
    tts_llm,                \* provider selector
    role_list,              \* result of identify_role
    voice_match_info_list,  \* result of match_voices
    segments,               \* result of novel_segmentation (list of dicts)
    speaker_list,           \* result of identify_speaker
    combined_data,          \* result of combine_data
    integrated_data,        \* result of integrate_same_speaker
    oracle_calls,           \* every t2t / t2s request issued, in order
    files,                  \* every audio file written, in order
    item_idx,               \* tts_generation: index of the record being dispatched
    audio_bytes,            \* tts_generation: response held between request and write
    raw_voice_list,         \* VoiceMatcher: the unprojected catalog
    voice_match_item,       \* VoiceMatcher: one item of the oracle's answer
    voice_info              \* VoiceMatcher: result of _create_voice_info

vars == <<pc, error, text, config, tts_llm, role_list, voice_match_info_list,
          segments, speaker_list, combined_data, integrated_data, oracle_calls,
          files, item_idx, audio_bytes, raw_voice_list, voice_match_item,
          voice_info>>

-----------------------------------------------------------------------------
(* Python values *)

\* None in a slot that otherwise holds a str
None == "None"
\* None in a slot that otherwise holds a dict
NoneDict == [py_none |-> TRUE]
\* {} : the dict with no key
EmptyDict == <<>>

Ok(v) == [raised |-> "none", value |-> v]
Raise(e) == [raised |-> e, value |-> <<>>]

-----------------------------------------------------------------------------
(* Characters *)

LATIN == "a"          \* a Latin letter, [a-zA-Z]
DIGIT == "7"          \* a digit, \d
CJK == "U+4E2D"       \* a CJK ideograph, [\u4e00-\u9fff]
FULLSTOP == "U+3002"  \* ideographic full stop
BANG == "!"           \* a symbol that is no letter, digit or ideograph
SPACE == " "
LF == "\n"

Alphabet == {LATIN, DIGIT, CJK, FULLSTOP, BANG, SPACE, LF}

\* the characters str.strip() removes
IsSpace(c) == c \in {SPACE, LF}

\* r"\d|[\u4e00-\u9fff]|[a-zA-Z]" matches the character
IsBreakChar(c) == c \in {LATIN, DIGIT, CJK}

-----------------------------------------------------------------------------
(* str operations *)

\* s.replace("\n", "")
RemoveNewlines(s) == SelectSeq(s, LAMBDA c : c # LF)

RECURSIVE LStrip(_)
LStrip(s) == IF s # <<>> /\ IsSpace(Head(s)) THEN LStrip(Tail(s)) ELSE s

RECURSIVE RStrip(_)
RStrip(s) ==
    IF s # <<>> /\ IsSpace(s[Len(s)]) THEN RStrip(SubSeq(s, 1, Len(s) - 1)) ELSE s

\* s.strip()
Strip(s) == RStrip(LStrip(s))

\* re.search(r"\d|[\u4e00-\u9fff]|[a-zA-Z]", s) is not None
SearchBreak(s) == \E i \in 1..Len(s) : IsBreakChar(s[i])

\* re.split("([...])", s): the pieces between the matches, with every matched
\* character kept as a piece of its own; cur is the piece being read
RECURSIVE ReSplitFrom(_, _, _)
ReSplitFrom(s, marks, cur) ==
    IF s = <<>> THEN <<cur>>
    ELSE IF Head(s) \in marks
         THEN <<cur, <<Head(s)>>>> \o ReSplitFrom(Tail(s), marks, <<>>)
         ELSE ReSplitFrom(Tail(s), marks, cur \o <<Head(s)>>)

ReSplit(s, marks) == ReSplitFrom(s, marks, <<>>)

\* the characters the class [re.escape(punctuation_marks)] matches
PatternChars(punctuation_marks) ==
    {punctuation_marks[i] : i \in 1..Len(punctuation_marks)}

-----------------------------------------------------------------------------
(* novel_segmentation *)

\* the for loop over the split pieces; processed is processed_segments
RECURSIVE ProcessSegments(_, _)
ProcessSegments(pieces, processed) ==
    IF pieces = <<>> THEN Ok(processed)
    ELSE LET segment == Head(pieces) IN
         IF Strip(segment) # <<>>
         THEN IF SearchBreak(segment)
              THEN ProcessSegments(Tail(pieces), Append(processed, segment))
              ELSE IF processed = <<>>
                   THEN Raise("IndexError")
                   ELSE ProcessSegments(Tail(pieces),
                            [processed EXCEPT ![Len(processed)] = @ \o segment])
         ELSE ProcessSegments(Tail(pieces), processed)

\* the enumerate loop that builds the result list
SegmentInfos(processed) ==
    LET all == [i \in 1..Len(processed) |->
                    [segment_id |-> i - 1, content |-> processed[i]]]
    IN SelectSeq(all, LAMBDA info : info.content # <<>>)

novel_segmentation(txt, cfg) ==
    IF "SEGMENTATION_PUNCTUATION" \notin DOMAIN cfg THEN Raise("KeyError")
    ELSE LET punctuation_marks == cfg["SEGMENTATION_PUNCTUATION"] IN
         IF punctuation_marks = <<>> THEN Raise("re.error")
         ELSE LET pieces == ReSplit(RemoveNewlines(txt), PatternChars(punctuation_marks))
                  done == ProcessSegments(pieces, <<>>)
              IN IF done.raised # "none" THEN done
                 ELSE Ok(SegmentInfos(done.value))

-----------------------------------------------------------------------------
(* next(generator, None) *)

\* the first of the positions at which the generator's condition holds, 0 when
\* there is none
FirstIndex(hits) ==
    IF hits = {} THEN 0 ELSE CHOOSE i \in hits : \A j \in hits : i <= j

-----------------------------------------------------------------------------
(* VoiceMatcher._create_voice_info *)

Minimax_create_voice_info(item, raw_list) ==
    LET k == FirstIndex({i \in 1..Len(raw_list) :
                            raw_list[i].voice_name = item.voice_name})
        voice_id == IF k = 0 THEN None ELSE raw_list[k].voice_id
    IN [voice_name |-> item.voice_name, voice_source |-> "minimax", voice |-> voice_id]

\* _create_voice_info that keeps the last catalog entry with the label
Doubao_create_voice_info_last(item, raw_list) ==
    LET hits == {i \in 1..Len(raw_list) : raw_list[i].character_name = item.voice_name}
        voice_type == IF hits = {} THEN None
                      ELSE raw_list[CHOOSE i \in hits : \A j \in hits : j <= i].voice_type
    IN [voice_name |-> item.voice_name, voice_source |-> "doubao", voice |-> voice_type]

Doubao_create_voice_info(item, raw_list) ==
    LET k == FirstIndex({i \in 1..Len(raw_list) :
                            raw_list[i].character_name = item.voice_name})
        voice_type == IF k = 0 THEN None ELSE raw_list[k].voice_type
    IN [voice_name |-> item.voice_name, voice_source |-> "doubao", voice |-> voice_type]

\* the _create_voice_info of the matcher class that tts_llm selects
create_voice_info(provider, item, raw_list) ==
    IF provider = "minimax" THEN Minimax_create_voice_info(item, raw_list)
    ELSE Doubao_create_voice_info(item, raw_list)

-----------------------------------------------------------------------------
(* combine_data *)

\* CombineOne with each lookup keeping the last match: what a dict built from
\* the list, later keys overwriting earlier ones, would return
CombineOneLast(segment, speakers, voice_matches) ==
    LET sh == {i \in 1..Len(speakers) : speakers[i].segment_id = segment.segment_id}
        speaker == IF sh = {} THEN None
                   ELSE speakers[CHOOSE i \in sh : \A j \in sh : j <= i].speaker
        vh == {i \in 1..Len(voice_matches) : voice_matches[i].name = speaker}
        info == IF vh = {} THEN NoneDict
                ELSE voice_matches[CHOOSE i \in vh : \A j \in vh : j <= i].voice_info
    IN [segment_id |-> segment.segment_id, content |-> segment.content,
        speaker |-> speaker, voice_info |-> info]

\* the dict of one segment after the loop body has run on it
CombineOne(segment, speakers, voice_matches) ==
    LET s == FirstIndex({i \in 1..Len(speakers) :
                            speakers[i].segment_id = segment.segment_id})
        speaker == IF s = 0 THEN None ELSE speakers[s].speaker
        v == FirstIndex({i \in 1..Len(voice_matches) : voice_matches[i].name = speaker})
        info == IF v = 0 THEN NoneDict ELSE voice_matches[v].voice_info
    IN [segment_id |-> segment.segment_id, content |-> segment.content,
        speaker |-> speaker, voice_info |-> info]

\* combine_data that appends a segment only when a speaker was found for it
combine_data_matched_only(segs, speakers, voice_matches) ==
    SelectSeq([i \in 1..Len(segs) |-> CombineOne(segs[i], speakers, voice_matches)],
              LAMBDA d : d.speaker # None)

\* the returned list; each element is the input dict itself, updated in place
combine_data(segs, speakers, voice_matches) ==
    [i \in 1..Len(segs) |-> CombineOne(segs[i], speakers, voice_matches)]

-----------------------------------------------------------------------------
(* integrate_same_speaker *)

\* the loop's state before the first record
MergeStart ==
    [integrated_data |-> <<>>, last_segment_speaker |-> "",
     last_voice_info |-> EmptyDict, combile_content |-> <<>>]

\* MergeStep with the flushed record given the voice of the record that ends
\* the run instead of the voice carried for the run
MergeStepNextVoice(st, item) ==
    LET same == item.speaker = st.last_segment_speaker
        new_item == [segment_id |-> Len(st.integrated_data),
                     speaker |-> st.last_segment_speaker,
                     content |-> RemoveNewlines(st.combile_content),
                     voice_info |-> item.voice_info]
    IN [integrated_data |->
            IF ~same /\ st.combile_content # <<>>
            THEN Append(st.integrated_data, new_item)
            ELSE st.integrated_data,
        combile_content |->
            IF same THEN st.combile_content \o item.content ELSE item.content,
        last_segment_speaker |-> item.speaker,
        last_voice_info |-> item.voice_info]

\* MergeStep with = in place of += : a record of the carried speaker replaces
\* the accumulated content
MergeStepOverwrite(st, item) ==
    LET same == item.speaker = st.last_segment_speaker
        new_item == [segment_id |-> Len(st.integrated_data),
                     speaker |-> st.last_segment_speaker,
                     content |-> RemoveNewlines(st.combile_content),
                     voice_info |-> st.last_voice_info]
    IN [integrated_data |->
            IF ~same /\ st.combile_content # <<>>
            THEN Append(st.integrated_data, new_item)
            ELSE st.integrated_data,
        combile_content |-> item.content,
        last_segment_speaker |-> item.speaker,
        last_voice_info |-> item.voice_info]

\* one pass of the loop body on item
MergeStep(st, item) ==
    LET same == item.speaker = st.last_segment_speaker
        new_item == [segment_id |-> Len(st.integrated_data),
                     speaker |-> st.last_segment_speaker,
                     content |-> RemoveNewlines(st.combile_content),
                     voice_info |-> st.last_voice_info]
    IN [integrated_data |->
            IF ~same /\ st.combile_content # <<>>
            THEN Append(st.integrated_data, new_item)
            ELSE st.integrated_data,
        combile_content |->
            IF same THEN st.combile_content \o item.content ELSE item.content,
        last_segment_speaker |-> item.speaker,
        last_voice_info |-> item.voice_info]

RECURSIVE MergeLoop(_, _)
MergeLoop(st, items) ==
    IF items = <<>> THEN st ELSE MergeLoop(MergeStep(st, Head(items)), Tail(items))

\* MergeFlush without the flush: the run still open after the loop is lost
MergeFlushNothing(st) == st.integrated_data

\* "add last item": the flush after the loop
MergeFlush(st) ==
    IF st.combile_content # <<>>
    THEN Append(st.integrated_data,
                [segment_id |-> Len(st.integrated_data),
                 speaker |-> st.last_segment_speaker,
                 content |-> st.combile_content,
                 voice_info |-> st.last_voice_info])
    ELSE st.integrated_data

integrate_same_speaker(items) == MergeFlush(MergeLoop(MergeStart, items))

-----------------------------------------------------------------------------
(* Bounds and input sets *)

MaxTextLen == 3      \* longest text given to novel_segmentation
MaxRecords == 3      \* longest list given to integrate_same_speaker / tts_generation
MaxSegments == 2     \* longest segment list given to combine_data
MaxAssignments == 2  \* longest speaker list / voice match list given to combine_data
MaxCatalog == 2      \* longest voice catalog

SeqsUpTo(S, n) == UNION {[1..k -> S] : k \in 0..n}

Texts == SeqsUpTo(Alphabet, MaxTextLen)

\* values of SEGMENTATION_PUNCTUATION
Punctuations == {<<>>, <<FULLSTOP>>, <<FULLSTOP, BANG>>, <<LATIN, SPACE>>}

\* .env files: with and without the SEGMENTATION_PUNCTUATION key
Configs ==
    {[MINIMAXI_API_KEY |-> <<LATIN>>]}
    \cup {[MINIMAXI_API_KEY |-> <<LATIN>>, SEGMENTATION_PUNCTUATION |-> p] :
             p \in Punctuations}

SpeakerNames == {"", None, "A"}

VoiceInfos ==
    {[voice_name |-> "L1", voice_source |-> "minimax", voice |-> "h1"],
     [voice_name |-> "L3", voice_source |-> "minimax", voice |-> None]}

\* contents of the records given to integrate_same_speaker
Contents == {<<>>, <<LATIN>>, <<DIGIT>>, <<LF>>}

CombinedRecords ==
    [segment_id : {0}, content : Contents, speaker : SpeakerNames,
     voice_info : VoiceInfos]

\* inputs of combine_data
SegmentDicts == [segment_id : 0..1, content : {<<LATIN>>, <<DIGIT>>}]
SpeakerDicts == [segment_id : 0..1, speaker : {"A", "B"}]
VoiceMatchDicts == [role_id : {1}, name : {"A", "B"}, voice_info : VoiceInfos]

\* voice catalogs and oracle answers
Labels == {"L1", "L2"}
Handles == {"h1", "h2"}
MinimaxVoices == [voice_name : Labels, voice_id : Handles, description : {"d"}]
DoubaoVoices == [character_name : Labels, voice_type : Handles, category : {"c"}]
VoiceMatchItems == [role_id : {1}, name : {"A"}, voice_name : Labels \cup {"L3"}]

\* lists given to tts_generation: ids dense from 0, as the merger numbers them
MergedLists ==
    UNION {{[i \in 1..k |-> [segment_id |-> i - 1, content |-> c[i],
                             speaker |-> "A", voice_info |-> v[i]]] :
               c \in [1..k -> {<<LATIN>>, <<DIGIT>>}],
               v \in [1..k -> VoiceInfos \cup {NoneDict}]} :
           k \in 0..MaxRecords}

-----------------------------------------------------------------------------
(* The state outside a call: nothing computed, nothing sent, nothing written *)

NoInputs ==
    /\ text = <<>>
    /\ config = [MINIMAXI_API_KEY |-> <<LATIN>>]
    /\ tts_llm = "minimax"

NoLists ==
    /\ role_list = <<>>
    /\ voice_match_info_list = <<>>
    /\ speaker_list = <<>>

NoEffects ==
    /\ oracle_calls = <<>>
    /\ files = <<>>
    /\ item_idx = 1
    /\ audio_bytes = None

NoMatcher ==
    /\ raw_voice_list = <<>>
    /\ voice_match_item = NoneDict
    /\ voice_info = NoneDict

inputVars == <<text, config, tts_llm>>
effectVars == <<oracle_calls, files, item_idx, audio_bytes>>
matcherVars == <<raw_voice_list, voice_match_item, voice_info>>

-----------------------------------------------------------------------------
(* novel_segmentation called on a text *)

InitSeg ==
    /\ pc = "novel_segmentation"
    /\ error = "none"
    /\ text \in Texts
    /\ config \in Configs
    /\ tts_llm = "minimax"
    /\ segments = <<>>
    /\ combined_data = <<>>
    /\ integrated_data = <<>>
    /\ NoLists /\ NoEffects /\ NoMatcher

SegCall ==
    /\ pc = "novel_segmentation"
    /\ LET r == novel_segmentation(text, config) IN
        /\ pc' = IF r.raised = "none" THEN "returned" ELSE "raised"
        /\ error' = r.raised
        /\ segments' = r.value
    /\ UNCHANGED <<inputVars, role_list, voice_match_info_list, speaker_list,
                   combined_data, integrated_data, effectVars, matcherVars>>

NextSeg == SegCall

SpecSeg == InitSeg /\ [][NextSeg]_vars

-----------------------------------------------------------------------------
(* integrate_same_speaker called on a list of combined records *)

InitMerge ==
    /\ pc = "integrate_same_speaker"
    /\ error = "none"
    /\ NoInputs
    /\ segments = <<>>
    /\ combined_data \in SeqsUpTo(CombinedRecords, MaxRecords)
    /\ integrated_data = <<>>
    /\ NoLists /\ NoEffects /\ NoMatcher

MergeCall ==
    /\ pc = "integrate_same_speaker"
    /\ integrated_data' = integrate_same_speaker(combined_data)
    /\ pc' = "returned"
    /\ UNCHANGED <<error, inputVars, role_list, voice_match_info_list, segments,
                   speaker_list, combined_data, effectVars, matcherVars>>

NextMerge == MergeCall

SpecMerge == InitMerge /\ [][NextMerge]_vars

-----------------------------------------------------------------------------
(* combine_data called on segments, a speaker list and a voice match list *)

InitCombine ==
    /\ pc = "combine_data"
    /\ error = "none"
    /\ NoInputs
    /\ role_list = <<>>
    /\ segments \in SeqsUpTo(SegmentDicts, MaxSegments)
    /\ speaker_list \in SeqsUpTo(SpeakerDicts, MaxAssignments)
    /\ voice_match_info_list \in SeqsUpTo(VoiceMatchDicts, MaxAssignments)
    /\ combined_data = <<>>
    /\ integrated_data = <<>>
    /\ NoEffects /\ NoMatcher

\* the dicts of the returned list are the dicts of segments: the assignments to
\* segment["speaker"] and segment["voice_info"] show in both
CombineCall ==
    /\ pc = "combine_data"
    /\ combined_data' = combine_data(segments, speaker_list, voice_match_info_list)
    /\ segments' = combined_data'
    /\ pc' = "returned"
    /\ UNCHANGED <<error, inputVars, role_list, voice_match_info_list, speaker_list,
                   integrated_data, effectVars, matcherVars>>

NextCombine == CombineCall

SpecCombine == InitCombine /\ [][NextCombine]_vars

-----------------------------------------------------------------------------
(* _create_voice_info called on one oracle item and a catalog *)

InitVoice ==
    /\ pc = "_create_voice_info"
    /\ error = "none"
    /\ text = <<>>
    /\ config = [MINIMAXI_API_KEY |-> <<LATIN>>]
    /\ tts_llm \in {"minimax", "doubao"}
    /\ raw_voice_list \in SeqsUpTo(IF tts_llm = "minimax" THEN MinimaxVoices
                                   ELSE DoubaoVoices, MaxCatalog)
    /\ voice_match_item \in VoiceMatchItems
    /\ voice_info = NoneDict
    /\ segments = <<>>
    /\ combined_data = <<>>
    /\ integrated_data = <<>>
    /\ NoLists /\ NoEffects

MinimaxCreateVoiceInfo ==
    /\ pc = "_create_voice_info"
    /\ tts_llm = "minimax"
    /\ voice_info' = Minimax_create_voice_info(voice_match_item, raw_voice_list)
    /\ pc' = "returned"
    /\ UNCHANGED <<error, inputVars, role_list, voice_match_info_list, segments,
                   speaker_list, combined_data, integrated_data, effectVars,
                   raw_voice_list, voice_match_item>>

DoubaoCreateVoiceInfo ==
    /\ pc = "_create_voice_info"
    /\ tts_llm = "doubao"
    /\ voice_info' = Doubao_create_voice_info(voice_match_item, raw_voice_list)
    /\ pc' = "returned"
    /\ UNCHANGED <<error, inputVars, role_list, voice_match_info_list, segments,
                   speaker_list, combined_data, integrated_data, effectVars,
                   raw_voice_list, voice_match_item>>

NextVoice == MinimaxCreateVoiceInfo \/ DoubaoCreateVoiceInfo

SpecVoice == InitVoice /\ [][NextVoice]_vars

-----------------------------------------------------------------------------
(* tts_generation *)

\* the t2s request that tts_generation builds for item
T2sRequest(item) ==
    [fn |-> "t2s", text |-> item.content, llm |-> item.voice_info.voice_source,
     voice |-> item.voice_info.voice]

\* output_dir.mkdir(parents=True, exist_ok=True)
TtsMkdir ==
    /\ pc = "tts_mkdir"
    /\ \/ pc' = "tts_request" /\ error' = error
       \/ pc' = "raised" /\ error' = "OSError"
    /\ UNCHANGED <<inputVars, role_list, voice_match_info_list, segments,
                   speaker_list, combined_data, integrated_data, effectVars,
                   matcherVars>>

\* TtsRequest that passes over a record without voice_info and goes on with
\* the next one
TtsRequestSkipNull ==
    /\ pc = "tts_request"
    /\ item_idx <= Len(integrated_data)
    /\ LET item == integrated_data[item_idx] IN
        IF item.voice_info = NoneDict
        THEN /\ pc' = "tts_request"
             /\ item_idx' = item_idx + 1
             /\ UNCHANGED <<error, oracle_calls, audio_bytes>>
        ELSE /\ oracle_calls' = Append(oracle_calls, T2sRequest(item))
             /\ item_idx' = item_idx
             /\ \/ /\ pc' = "tts_sleep"
                   /\ error' = error
                   /\ audio_bytes' = <<"audio", item.content, item.voice_info.voice>>
                \/ /\ pc' = "raised"
                   /\ error' = "OracleError"
                   /\ UNCHANGED audio_bytes
    /\ UNCHANGED <<inputVars, role_list, voice_match_info_list, segments,
                   speaker_list, combined_data, integrated_data, files,
                   matcherVars>>

\* the head of the loop body: the arguments of t2s are evaluated, then t2s is
\* called; the oracle answers with bytes or raises
TtsRequest ==
    /\ pc = "tts_request"
    /\ item_idx <= Len(integrated_data)
    /\ LET item == integrated_data[item_idx] IN
        IF item.voice_info = NoneDict
        THEN /\ pc' = "raised"
             /\ error' = "TypeError"
             /\ UNCHANGED <<oracle_calls, audio_bytes>>
        ELSE IF item.voice_info = EmptyDict
        THEN /\ pc' = "raised"
             /\ error' = "KeyError"
             /\ UNCHANGED <<oracle_calls, audio_bytes>>
        ELSE /\ oracle_calls' = Append(oracle_calls, T2sRequest(item))
             /\ \/ /\ pc' = "tts_sleep"
                   /\ error' = error
                   /\ audio_bytes' = <<"audio", item.content, item.voice_info.voice>>
                \/ /\ pc' = "raised"
                   /\ error' = "OracleError"
                   /\ UNCHANGED audio_bytes
    /\ UNCHANGED <<inputVars, role_list, voice_match_info_list, segments,
                   speaker_list, combined_data, integrated_data, files, item_idx,
                   matcherVars>>

\* TtsSleep that goes on with the next record, the write left undone
TtsSleepSkipsWrite ==
    /\ pc = "tts_sleep"
    /\ pc' = "tts_request"
    /\ item_idx' = item_idx + 1
    /\ audio_bytes' = None
    /\ UNCHANGED <<error, inputVars, role_list, voice_match_info_list, segments,
                   speaker_list, combined_data, integrated_data, oracle_calls,
                   files, matcherVars>>

\* sleep(2)
TtsSleep ==
    /\ pc = "tts_sleep"
    /\ pc' = "tts_write"
    /\ UNCHANGED <<error, inputVars, role_list, voice_match_info_list, segments,
                   speaker_list, combined_data, integrated_data, effectVars,
                   matcherVars>>

\* open(output_dir / f"{item['segment_id']}.mp3", "wb") and f.write(audio_bytes)
TtsWrite ==
    /\ pc = "tts_write"
    /\ \/ /\ files' = Append(files, [name |-> integrated_data[item_idx].segment_id,
                                     data |-> audio_bytes])
          /\ item_idx' = item_idx + 1
          /\ audio_bytes' = None
          /\ pc' = "tts_request"
          /\ error' = error
       \/ /\ pc' = "raised"
          /\ error' = "OSError"
          /\ UNCHANGED <<files, item_idx, audio_bytes>>
    /\ UNCHANGED <<inputVars, role_list, voice_match_info_list, segments,
                   speaker_list, combined_data, integrated_data, oracle_calls,
                   matcherVars>>

\* the loop is exhausted
TtsReturn ==
    /\ pc = "tts_request"
    /\ item_idx > Len(integrated_data)
    /\ pc' = "done"
    /\ UNCHANGED <<error, inputVars, role_list, voice_match_info_list, segments,
                   speaker_list, combined_data, integrated_data, effectVars,
                   matcherVars>>

InitTts ==
    /\ pc = "tts_mkdir"
    /\ error = "none"
    /\ NoInputs
    /\ segments = <<>>
    /\ combined_data = <<>>
    /\ integrated_data \in MergedLists
    /\ NoLists /\ NoEffects /\ NoMatcher

NextTts == TtsMkdir \/ TtsRequest \/ TtsSleep \/ TtsWrite \/ TtsReturn

SpecTts == InitTts /\ [][NextTts]_vars

-----------------------------------------------------------------------------
(* multi_tts_workflow *)

MaxFlowTextLen == 2  \* longest text given to multi_tts_workflow

FlowTexts == SeqsUpTo(Alphabet, MaxFlowTextLen)

\* values of the tts_llm argument: the two recognized ones and another
Selectors == {"minimax", "doubao", "azure"}

\* answers of the role extraction oracle
RoleLists ==
    {<<>>, <<[role_id |-> 1, name |-> "A", description |-> "d"]>>}

\* voice_list/minimax_voice_list.json and voice_list/doubao_voice_list.json
MinimaxCatalog ==
    <<[voice_name |-> "L1", voice_id |-> "h1", description |-> "d"],
      [voice_name |-> "L1", voice_id |-> "h2", description |-> "d"]>>
DoubaoCatalog ==
    <<[character_name |-> "L1", voice_type |-> "h1", category |-> "c"],
      [character_name |-> "L2", voice_type |-> "h2", category |-> "c"]>>

\* answers of the voice matching oracle: one item per role, the label in the
\* catalog or not
VoiceMatchAnswers(roles) ==
    {[i \in 1..Len(roles) |->
         [role_id |-> roles[i].role_id, name |-> roles[i].name, voice_name |-> l]] :
        l \in {"L1", "L3"}}

\* answers of the speaker attribution oracle: a speaker for every segment, or
\* for every segment but the last
SpeakerAnswers(segs) ==
    LET full == {[i \in 1..Len(segs) |->
                     [segment_id |-> segs[i].segment_id, speaker |-> sp[i]]] :
                    sp \in [1..Len(segs) -> {"A", "B"}]}
    IN full \cup {SubSeq(a, 1, Len(a) - 1) : a \in full}

\* a t2t request
T2tRequest(llm, user_prompt) == [fn |-> "t2t", llm |-> llm, user_prompt |-> user_prompt]

flowLists == <<role_list, voice_match_info_list, segments, speaker_list,
               combined_data, integrated_data>>

InitFlow ==
    /\ pc = "step1"
    /\ error = "none"
    /\ text \in FlowTexts
    /\ config \in Configs
    /\ tts_llm \in Selectors
    /\ segments = <<>>
    /\ combined_data = <<>>
    /\ integrated_data = <<>>
    /\ NoLists /\ NoEffects /\ NoMatcher

\* step1, identify_role: the prompt file is read, the oracle is asked, its
\* answer is parsed
Step1IdentifyRole ==
    /\ pc = "step1"
    /\ \/ /\ pc' = "raised" /\ error' = "OSError"
          /\ UNCHANGED <<role_list, oracle_calls>>
       \/ /\ oracle_calls' = Append(oracle_calls, T2tRequest("qwen", text))
          /\ \/ /\ pc' = "raised" /\ error' = "OracleError"
                /\ UNCHANGED role_list
             \/ /\ pc' = "step2" /\ error' = error
                /\ role_list' \in RoleLists
    /\ UNCHANGED <<inputVars, voice_match_info_list, segments, speaker_list,
                   combined_data, integrated_data, files, item_idx, audio_bytes,
                   matcherVars>>

\* step2 with a recognized selector, match_voices: the catalog is loaded, the
\* oracle is asked, each item of its answer is resolved against the catalog
Step2MatchVoices ==
    /\ pc = "step2"
    /\ tts_llm \in {"minimax", "doubao"}
    /\ \/ /\ pc' = "raised" /\ error' = "OSError"
          /\ UNCHANGED <<voice_match_info_list, oracle_calls, raw_voice_list>>
       \/ /\ raw_voice_list' =
                 IF tts_llm = "minimax" THEN MinimaxCatalog ELSE DoubaoCatalog
          /\ oracle_calls' = Append(oracle_calls, T2tRequest("new_api", role_list))
          /\ \/ /\ pc' = "raised" /\ error' = "OracleError"
                /\ UNCHANGED voice_match_info_list
             \/ /\ pc' = "step3" /\ error' = error
                /\ \E voice_match_list \in VoiceMatchAnswers(role_list) :
                       voice_match_info_list' =
                           [i \in 1..Len(voice_match_list) |->
                               [role_id |-> voice_match_list[i].role_id,
                                name |-> voice_match_list[i].name,
                                voice_info |->
                                    create_voice_info(tts_llm, voice_match_list[i],
                                                      raw_voice_list')]]
    /\ UNCHANGED <<inputVars, role_list, segments, speaker_list, combined_data,
                   integrated_data, files, item_idx, audio_bytes,
                   voice_match_item, voice_info>>

\* step2 with any other selector
Step2Unsupported ==
    /\ pc = "step2"
    /\ tts_llm \notin {"minimax", "doubao"}
    /\ pc' = "raised"
    /\ error' = "ValueError"
    /\ UNCHANGED <<inputVars, flowLists, effectVars, matcherVars>>

\* Step3Segment with the exception of novel_segmentation swallowed: the run
\* goes on with no segments
Step3SegmentSwallowed ==
    /\ pc = "step3"
    /\ LET r == novel_segmentation(text, config) IN
        /\ pc' = "step4"
        /\ error' = error
        /\ segments' = r.value
    /\ UNCHANGED <<inputVars, role_list, voice_match_info_list, speaker_list,
                   combined_data, integrated_data, effectVars, matcherVars>>

\* step3, novel_segmentation
Step3Segment ==
    /\ pc = "step3"
    /\ LET r == novel_segmentation(text, config) IN
        /\ pc' = IF r.raised = "none" THEN "step4" ELSE "raised"
        /\ error' = IF r.raised = "none" THEN error ELSE r.raised
        /\ segments' = r.value
    /\ UNCHANGED <<inputVars, role_list, voice_match_info_list, speaker_list,
                   combined_data, integrated_data, effectVars, matcherVars>>

\* step4, identify_speaker
Step4IdentifySpeaker ==
    /\ pc = "step4"
    /\ \/ /\ pc' = "raised" /\ error' = "OSError"
          /\ UNCHANGED <<speaker_list, oracle_calls>>
       \/ /\ oracle_calls' =
                 Append(oracle_calls, T2tRequest("new_api", <<role_list, segments>>))
          /\ \/ /\ pc' = "raised" /\ error' = "OracleError"
                /\ UNCHANGED speaker_list
             \/ /\ pc' = "step5" /\ error' = error
                /\ speaker_list' \in SpeakerAnswers(segments)
    /\ UNCHANGED <<inputVars, role_list, voice_match_info_list, segments,
                   combined_data, integrated_data, files, item_idx, audio_bytes,
                   matcherVars>>

\* step5, combine_data
Step5Combine ==
    /\ pc = "step5"
    /\ combined_data' = combine_data(segments, speaker_list, voice_match_info_list)
    /\ segments' = combined_data'
    /\ pc' = "step6"
    /\ UNCHANGED <<error, inputVars, role_list, voice_match_info_list, speaker_list,
                   integrated_data, effectVars, matcherVars>>

\* step6, integrate_same_speaker; step7, tts_generation, starts
Step6Integrate ==
    /\ pc = "step6"
    /\ integrated_data' = integrate_same_speaker(combined_data)
    /\ pc' = "tts_mkdir"
    /\ UNCHANGED <<error, inputVars, role_list, voice_match_info_list, segments,
                   speaker_list, combined_data, effectVars, matcherVars>>

NextFlow ==
    \/ Step1IdentifyRole
    \/ Step2MatchVoices
    \/ Step2Unsupported
    \/ Step3Segment
    \/ Step4IdentifySpeaker
    \/ Step5Combine
    \/ Step6Integrate
    \/ TtsMkdir
    \/ TtsRequest
    \/ TtsSleep
    \/ TtsWrite
    \/ TtsReturn

SpecFlow == InitFlow /\ [][NextFlow]_vars

-----------------------------------------------------------------------------
(* combine_data followed by integrate_same_speaker: steps 5 and 6 on any lists *)

\* segments, with empty contents too, and speaker assignments, with the
\* speaker "" too
JoinSegmentDicts == [segment_id : 0..1, content : {<<>>, <<LATIN>>}]
JoinSpeakerDicts == [segment_id : 0..1, speaker : {"A", "B", ""}]

InitJoin ==
    /\ pc = "step5"
    /\ error = "none"
    /\ NoInputs
    /\ role_list = <<>>
    /\ segments \in SeqsUpTo(JoinSegmentDicts, MaxSegments)
    /\ speaker_list \in SeqsUpTo(JoinSpeakerDicts, MaxAssignments)
    /\ voice_match_info_list \in SeqsUpTo(VoiceMatchDicts, MaxAssignments)
    /\ combined_data = <<>>
    /\ integrated_data = <<>>
    /\ NoEffects /\ NoMatcher

NextJoin == Step5Combine \/ Step6Integrate

SpecJoin == InitJoin /\ [][NextJoin]_vars

-----------------------------------------------------------------------------
(* Vocabulary of the properties *)

\* the call has ended, by return or by exception
Ended == pc \in {"returned", "raised"}

\* the boundary punctuation is configured and non-empty
PunctuationConfigured ==
    /\ "SEGMENTATION_PUNCTUATION" \in DOMAIN config
    /\ config["SEGMENTATION_PUNCTUATION"] # <<>>

\* the characters of s that are not whitespace, in order
NonSpace(s) == SelectSeq(s, LAMBDA c : ~IsSpace(c))

\* the contents of the records of list, concatenated in order
RECURSIVE ConcatContents(_)
ConcatContents(list) ==
    IF list = <<>> THEN <<>> ELSE Head(list).content \o ConcatContents(Tail(list))

\* positions at which a maximal run of equal-speaker records starts
RunStarts(items) ==
    {i \in 1..Len(items) : i = 1 \/ items[i].speaker # items[i - 1].speaker}

\* last position of the run that starts at i
RunEnd(items, i) ==
    CHOOSE j \in i..Len(items) :
        /\ \A k \in i..j : items[k].speaker = items[i].speaker
        /\ j = Len(items) \/ items[j + 1].speaker # items[i].speaker

\* the run that starts at i is the RunRank-th run of items
RunRank(items, i) == Cardinality({j \in RunStarts(items) : j <= i})

\* the contents of the run that starts at i, concatenated in order
RunContent(items, i) == ConcatContents(SubSeq(items, i, RunEnd(items, i)))

AllContentsNonEmpty(items) == \A i \in 1..Len(items) : items[i].content # <<>>

NoNewlines(items) ==
    \A i \in 1..Len(items) : RemoveNewlines(items[i].content) = items[i].content

\* every record's speaker differs from the speakers of its neighbours
DistinctNeighbours(items) ==
    \A i \in 1..(Len(items) - 1) : items[i].speaker # items[i + 1].speaker

-----------------------------------------------------------------------------
(* novel_segmentation: C1, C10 *)

\* C1: for every non-empty text and non-empty punctuation set,
\* novel_segmentation returns segments whose ids are 0..n-1 in order, none of
\* them empty or whitespace-only, whose contents concatenated carry the
\* text's non-whitespace characters in order (whitespace inside a segment is
\* not counted against it).  The code raises IndexError when the first
\* non-blank piece has no digit, ideograph or letter.
C1_SegmentationContract ==
    (Ended /\ text # <<>> /\ PunctuationConfigured) =>
        /\ error = "none"
        /\ \A i \in 1..Len(segments) : segments[i].segment_id = i - 1
        /\ \A i \in 1..Len(segments) : Strip(segments[i].content) # <<>>
        /\ NonSpace(ConcatContents(segments)) = NonSpace(text)

\* C10: empty text gives the empty list, and a non-empty text with none of
\* the boundary characters gives exactly one segment, with id 0.
C10_EmptyAndUnpunctuated ==
    (Ended /\ PunctuationConfigured) =>
        LET marks == PatternChars(config["SEGMENTATION_PUNCTUATION"]) IN
        /\ text = <<>> => (error = "none" /\ segments = <<>>)
        /\ (text # <<>> /\ \A i \in 1..Len(text) : text[i] \notin marks) =>
               /\ error = "none"
               /\ Len(segments) = 1
               /\ segments[1].segment_id = 0

-----------------------------------------------------------------------------
(* integrate_same_speaker: C2, C8, C9 *)

\* C2: every maximal run of equal-speaker records (contents non-empty) is
\* emitted as a record whose content is the run's contents concatenated with
\* every newline removed, the last run included.  The code leaves the
\* newlines in the record it appends after the loop.
C2_RunContentNewlineFree ==
    (pc = "returned" /\ AllContentsNonEmpty(combined_data)) =>
        \A i \in RunStarts(combined_data) :
            LET k == RunRank(combined_data, i) IN
            /\ k <= Len(integrated_data)
            /\ integrated_data[k].content =
                   RemoveNewlines(RunContent(combined_data, i))

\* C8: when every content is non-empty, the output has exactly one record per
\* maximal run, in the order of the runs, numbered 0..m-1; this includes a
\* leading run whose speaker is None or "".
C8_OneRecordPerRun ==
    (pc = "returned" /\ AllContentsNonEmpty(combined_data)) =>
        /\ Len(integrated_data) = Cardinality(RunStarts(combined_data))
        /\ \A i \in RunStarts(combined_data) :
               LET k == RunRank(combined_data, i) IN
               /\ integrated_data[k].segment_id = k - 1
               /\ integrated_data[k].speaker = combined_data[i].speaker
               /\ RemoveNewlines(integrated_data[k].content) =
                      RemoveNewlines(RunContent(combined_data, i))

\* C8 witness: three records in two runs, the leading run of two records
\* carrying the sentinel speaker "", have been merged
C8_Witness ==
    /\ pc = "returned"
    /\ AllContentsNonEmpty(combined_data)
    /\ Len(combined_data) = 3
    /\ combined_data[1].speaker = ""
    /\ combined_data[2].speaker = ""
    /\ combined_data[3].speaker = None
    /\ Len(integrated_data) = 2
    /\ integrated_data[1].speaker = ""

\* the output equals the input position by position, ids renumbered from 0
Isomorphic(out, in) ==
    /\ Len(out) = Len(in)
    /\ \A i \in 1..Len(in) :
           /\ out[i].speaker = in[i].speaker
           /\ out[i].voice_info = in[i].voice_info
           /\ out[i].content = in[i].content
           /\ out[i].segment_id = i - 1

\* C9 as stated: if every record's speaker differs from its neighbours', the
\* output is isomorphic to the input.
C9_Original ==
    (pc = "returned" /\ DistinctNeighbours(combined_data)) =>
        Isomorphic(integrated_data, combined_data)

\* C9 amended: if every record's speaker differs from its neighbours' and
\* every content is non-empty and holds no newline, the output is isomorphic
\* to the input.
C9_IsomorphicOnCleanInput ==
    (/\ pc = "returned"
     /\ DistinctNeighbours(combined_data)
     /\ AllContentsNonEmpty(combined_data)
     /\ NoNewlines(combined_data)) =>
        Isomorphic(integrated_data, combined_data)

\* C9 witness: three clean records, each speaker differing from the next,
\* the first and last speakers equal, have been passed through
C9_Witness ==
    /\ pc = "returned"
    /\ Len(combined_data) = 3
    /\ DistinctNeighbours(combined_data)
    /\ AllContentsNonEmpty(combined_data)
    /\ NoNewlines(combined_data)
    /\ combined_data[1].speaker = combined_data[3].speaker
    /\ combined_data[1].voice_info # combined_data[2].voice_info
    /\ Len(integrated_data) = 3

-----------------------------------------------------------------------------
(* combine_data: C4, C5 *)

\* C4: combine_data has no side effect: after it returns, every dict of the
\* input segment list still has exactly the keys segment_id and content.  The
\* code assigns segment["speaker"] and segment["voice_info"] on the input
\* dicts themselves.
C4_InputSegmentsUnchanged ==
    pc = "returned" =>
        \A i \in 1..Len(segments) : DOMAIN segments[i] = {"segment_id", "content"}

\* C5: the call of combine_data never raises and returns one record per input
\* segment, in the input's order, each with its segment's segment_id and
\* content, whatever keys the speaker list and voice match list miss or repeat.
C5_OneRecordPerSegment ==
    [][pc = "combine_data" =>
          /\ pc' = "returned"
          /\ error' = "none"
          /\ Len(combined_data') = Len(segments)
          /\ \A i \in 1..Len(segments) :
                 /\ combined_data'[i].segment_id = segments[i].segment_id
                 /\ combined_data'[i].content = segments[i].content]_vars

\* C5 witness: two segments combined against a speaker list that repeats one
\* segment_id and misses the other, and a voice list without the speaker
C5_Witness ==
    /\ pc = "returned"
    /\ Len(combined_data) = 2
    /\ Len(speaker_list) = 2
    /\ speaker_list[1].segment_id = speaker_list[2].segment_id
    /\ combined_data[1].speaker = None
    /\ combined_data[2].speaker # None
    /\ combined_data[2].voice_info = NoneDict

-----------------------------------------------------------------------------
(* _create_voice_info: C7 *)

\* C7: for both providers the voice_info carries the oracle's label and the
\* provider's tag, and its handle is that of the first catalog entry with the
\* label (minimax: voice_name -> voice_id, doubao: character_name ->
\* voice_type), or None when no entry has the label.
C7_VoiceResolution ==
    pc = "returned" =>
        LET label(e) == IF tts_llm = "minimax" THEN e.voice_name ELSE e.character_name
            handle(e) == IF tts_llm = "minimax" THEN e.voice_id ELSE e.voice_type
            hits == {i \in 1..Len(raw_voice_list) :
                        label(raw_voice_list[i]) = voice_match_item.voice_name}
        IN /\ voice_info.voice_name = voice_match_item.voice_name
           /\ voice_info.voice_source = tts_llm
           /\ hits = {} => voice_info.voice = None
           /\ hits # {} =>
                  \E i \in hits : /\ \A j \in hits : i <= j
                                  /\ voice_info.voice = handle(raw_voice_list[i])

\* C7 witness: a doubao catalog with two entries under the oracle's label and
\* different handles has been resolved
C7_Witness ==
    /\ pc = "returned"
    /\ tts_llm = "doubao"
    /\ Len(raw_voice_list) = 2
    /\ raw_voice_list[1].character_name = voice_match_item.voice_name
    /\ raw_voice_list[2].character_name = voice_match_item.voice_name
    /\ raw_voice_list[1].voice_type # raw_voice_list[2].voice_type
    /\ voice_info.voice = raw_voice_list[1].voice_type

-----------------------------------------------------------------------------
(* tts_generation: C6 *)

\* position of the first record without voice_info, 0 when every record has one
FirstNullVoice(items) == FirstIndex({i \in 1..Len(items) : items[i].voice_info = NoneDict})

\* C6: with k the first record whose voice_info is None, no request is sent
\* and no file written for record k or a later one, the dispatch never gets
\* past k, and when it ends on the missing voice_info it does so at record k
\* with records 0..k-1 requested and written, in order.
C6_AbortAtMissingVoice ==
    LET k == FirstNullVoice(integrated_data) IN
    /\ k # 0 => /\ item_idx <= k
                /\ Len(oracle_calls) < k
                /\ Len(files) < k
                /\ pc # "done"
    /\ error = "TypeError" => /\ k # 0
                              /\ item_idx = k
                              /\ Len(oracle_calls) = k - 1
                              /\ Len(files) = k - 1
    /\ \A j \in 1..Len(oracle_calls) : oracle_calls[j] = T2sRequest(integrated_data[j])
    /\ \A j \in 1..Len(files) : files[j].name = integrated_data[j].segment_id

\* C6 witness: the dispatch of three records has ended on the second, whose
\* voice_info is None, after the first was requested and written
C6_Witness ==
    /\ pc = "raised"
    /\ error = "TypeError"
    /\ Len(integrated_data) = 3
    /\ item_idx = 2
    /\ integrated_data[3].voice_info # NoneDict
    /\ Len(oracle_calls) = 1
    /\ Len(files) = 1
    /\ files[1].name = 0

-----------------------------------------------------------------------------
(* multi_tts_workflow: C3 *)

\* the run has ended with a configuration error: the punctuation setting is
\* missing, or the selector is not a recognized one
ConfigurationError ==
    /\ pc = "raised"
    /\ \/ error = "ValueError"
       \/ error = "KeyError" /\ "SEGMENTATION_PUNCTUATION" \notin DOMAIN config

\* C3: a run that ends with a configuration error has issued no oracle
\* request.  The code checks the selector after the role extraction request,
\* and reads the punctuation setting after the voice matching request.
C3_ConfigErrorBeforeOracle == ConfigurationError => oracle_calls = <<>>

-----------------------------------------------------------------------------
(* multi_tts_workflow: C11 *)

\* the stage a position belongs to: 1..7 in the order of the code, 8 once the
\* run has returned, 0 once an exception has ended it
StageOf(p) ==
    CASE p = "step1" -> 1
      [] p = "step2" -> 2
      [] p = "step3" -> 3
      [] p = "step4" -> 4
      [] p = "step5" -> 5
      [] p = "step6" -> 6
      [] p \in {"tts_mkdir", "tts_request", "tts_sleep", "tts_write"} -> 7
      [] p = "done" -> 8
      [] OTHER -> 0

\* a synthesis request has been issued
SynthesisRequested ==
    \E j \in 1..Len(oracle_calls) : oracle_calls[j].fn = "t2s"

\* every stage before the dispatch has completed: the three text oracles were
\* asked in order, the selector and the segmentation were accepted, and the
\* combined and merged lists are those the stages compute
EarlierStagesCompleted ==
    /\ Len(oracle_calls) >= 3
    /\ oracle_calls[1] = T2tRequest("qwen", text)
    /\ oracle_calls[2] = T2tRequest("new_api", role_list)
    /\ oracle_calls[3].fn = "t2t"
    /\ tts_llm \in {"minimax", "doubao"}
    /\ novel_segmentation(text, config).raised = "none"
    /\ segments = combined_data
    /\ integrated_data = integrate_same_speaker(combined_data)

\* C11: the stages run in the fixed order 1..7; a failed stage ends the run
\* with its error and nothing runs after it; a later stage is started only
\* when the selector and the segmentation were accepted; and a synthesis
\* request is issued only when every earlier stage has completed.
C11_NoPartialRunRecovery ==
    /\ [](error # "none" <=> pc = "raised")
    /\ [](StageOf(pc) >= 3 => tts_llm \in {"minimax", "doubao"})
    /\ [](StageOf(pc) >= 4 => novel_segmentation(text, config).raised = "none")
    /\ [](SynthesisRequested => EarlierStagesCompleted)
    /\ [][/\ pc # "raised"
          /\ pc # "done"
          /\ pc' # "raised" =>
                 \/ StageOf(pc') = StageOf(pc) + 1
                 \/ StageOf(pc') = 7 /\ StageOf(pc) = 7]_vars

\* C11 witness: the speaker attribution failed after role extraction, voice
\* matching and segmentation completed, and the run has ended with nothing
\* dispatched
C11_Witness ==
    /\ pc = "raised"
    /\ error = "OracleError"
    /\ Len(oracle_calls) = 3
    /\ Len(segments) >= 1
    /\ combined_data = <<>>
    /\ files = <<>>

-----------------------------------------------------------------------------
(* tts_generation: C12 *)

\* C12: the records are dispatched one at a time in sequence order: at most
\* one requested record is not yet written; the j-th request is that of the
\* j-th record and the j-th file carries its segment_id and its audio; a
\* request is issued only when every earlier response has been written; a
\* file is written only from the response in hand, after the pause, which
\* follows the response.
C12_StrictlySequential ==
    /\ [](Len(oracle_calls) - Len(files) \in {0, 1})
    /\ [][oracle_calls' # oracle_calls =>
              /\ Len(oracle_calls') = Len(oracle_calls) + 1
              /\ Len(files) = Len(oracle_calls)
              /\ audio_bytes = None]_vars
    /\ [][files' # files =>
              /\ pc = "tts_write"
              /\ audio_bytes # None
              /\ Len(files') = Len(files) + 1]_vars
    /\ [][(pc' = "tts_write" /\ pc # "tts_write") => pc = "tts_sleep"]_vars
    /\ [][(pc' = "tts_sleep" /\ pc # "tts_sleep") =>
              /\ pc = "tts_request"
              /\ oracle_calls' # oracle_calls
              /\ audio_bytes' # None]_vars
    /\ [](\A j \in 1..Len(oracle_calls) :
              oracle_calls[j] = T2sRequest(integrated_data[j]))
    /\ [](\A j \in 1..Len(files) :
              /\ files[j].name = integrated_data[j].segment_id
              /\ files[j].data = <<"audio", integrated_data[j].content,
                                   integrated_data[j].voice_info.voice>>)

\* C12 witness: the second record's response is in hand, the first record's
\* file is written, and a third record waits
C12_Witness ==
    /\ pc = "tts_sleep"
    /\ Len(integrated_data) = 3
    /\ item_idx = 2
    /\ Len(oracle_calls) = 2
    /\ Len(files) = 1
    /\ files[1].name = integrated_data[1].segment_id
    /\ audio_bytes # None

-----------------------------------------------------------------------------
(* combine_data: C13 *)

\* C13: each record's speaker is that of the first speaker assignment, in
\* list order, with the record's segment_id, None when there is none; its
\* voice_info is that of the first voice assignment whose name is that
\* speaker, None when there is none.
C13_FirstMatchWins ==
    pc = "returned" =>
        \A i \in 1..Len(combined_data) :
            LET rec == combined_data[i]
                sh == {j \in 1..Len(speaker_list) :
                          speaker_list[j].segment_id = rec.segment_id}
                vh == {j \in 1..Len(voice_match_info_list) :
                          voice_match_info_list[j].name = rec.speaker}
            IN /\ sh = {} => rec.speaker = None
               /\ sh # {} =>
                      \E j \in sh : /\ \A k \in sh : j <= k
                                    /\ rec.speaker = speaker_list[j].speaker
               /\ vh = {} => rec.voice_info = NoneDict
               /\ vh # {} =>
                      \E j \in vh :
                          /\ \A k \in vh : j <= k
                          /\ rec.voice_info = voice_match_info_list[j].voice_info

\* C13 witness: a segment combined against two speaker assignments for its
\* id that name different speakers, and two voice assignments for the first
\* speaker that carry different voices
C13_Witness ==
    /\ pc = "returned"
    /\ Len(combined_data) >= 1
    /\ Len(speaker_list) = 2
    /\ speaker_list[1].segment_id = combined_data[1].segment_id
    /\ speaker_list[2].segment_id = combined_data[1].segment_id
    /\ speaker_list[1].speaker # speaker_list[2].speaker
    /\ Len(voice_match_info_list) = 2
    /\ voice_match_info_list[1].name = speaker_list[1].speaker
    /\ voice_match_info_list[2].name = speaker_list[1].speaker
    /\ voice_match_info_list[1].voice_info # voice_match_info_list[2].voice_info
    /\ combined_data[1].voice_info = voice_match_info_list[1].voice_info

-----------------------------------------------------------------------------
(* combine_data and integrate_same_speaker: C14 *)

-----------------------------------------------------------------------------
(* integrate_same_speaker: C15 *)

\* C15: when every content is non-empty, no two adjacent merged records have
\* the same speaker, and the merged contents concatenated in order are the
\* input contents concatenated in order, newlines aside.
C15_MaximalAndLossless ==
    (pc = "returned" /\ AllContentsNonEmpty(combined_data)) =>
        /\ \A i \in 1..(Len(integrated_data) - 1) :
               integrated_data[i].speaker # integrated_data[i + 1].speaker
        /\ RemoveNewlines(ConcatContents(integrated_data)) =
               RemoveNewlines(ConcatContents(combined_data))

\* C15 witness: a run of two records, the second a newline, and a record of
\* another speaker have been merged into two records
C15_Witness ==
    /\ pc = "returned"
    /\ Len(combined_data) = 3
    /\ combined_data[1].speaker = combined_data[2].speaker
    /\ combined_data[2].speaker # combined_data[3].speaker
    /\ combined_data[1].content = <<LATIN>>
    /\ combined_data[2].content = <<LF>>
    /\ combined_data[3].content = <<DIGIT>>
    /\ Len(integrated_data) = 2
    /\ integrated_data[1].content = <<LATIN>>

====
